---- MODULE Spec2Model ----
(***************************************************************************)
(* Model of the analytics module template: the Detector.process operation  *)
(* (amod_template/module.py), the bright pixel segmentation                *)
(* (amod_template/analytics/bright_pixel_segmentation.py), the declarative *)
(* specification SPEC (amod_template/specification.py) and the contract    *)
(* validator Module.checktype, whose code lives in the amodule base        *)
(* package and is modelled after section 4.1 of the specification.         *)
(***************************************************************************)
EXTENDS Integers, Sequences, FiniteSets, TLC

(***************************************************************************)
(* Bounds of the model.                                                    *)
(***************************************************************************)
NumThreads == 2      \* threads that call Detector.process concurrently
MaxRank == 4         \* largest number of array dimensions handed to validate
MaxH == 1            \* largest image height handed to segment directly
MaxW == 2            \* largest image width handed to segment directly

Threads == 1..NumThreads

(***************************************************************************)
(* Runtime values.  A scalar carries its Python type and its value as the  *)
(* fraction num/den (130.5 is 261/2); an array carries its dtype, its      *)
(* shape and its elements in row-major (C) order.                          *)
(***************************************************************************)
None == [kind |-> "none"]
IntVal(n) == [kind |-> "scalar", etype |-> "int", num |-> n, den |-> 1]
FloatVal(n, d) == [kind |-> "scalar", etype |-> "float", num |-> n, den |-> d]
StrVal == [kind |-> "str", etype |-> "str"]
Array(etype, shape, data) ==
    [kind |-> "ndarray", etype |-> etype, shape |-> shape, data |-> data]

RECURSIVE Product(_)
Product(s) == IF s = <<>> THEN 1 ELSE Head(s) * Product(Tail(s))

RECURSIVE SumSeq(_)
SumSeq(s) == IF s = <<>> THEN 0 ELSE Head(s) + SumSeq(Tail(s))

Prefix(s, n) == [i \in 1..(IF n < Len(s) THEN n ELSE Len(s)) |-> s[i]]

Zeros(shape, etype) == Array(etype, shape, [i \in 1..Product(shape) |-> 0])

(***************************************************************************)
(* The specification structure: the methods table of SPEC.  A type         *)
(* descriptor string is kept as its sequence of lexemes, "/" included, so  *)
(* that "ndarray/uint8///3" is <<"ndarray","/","uint8","/","/","/","3">>.  *)
(***************************************************************************)
\* SPEC with the threshold parameter left out of the declared inputs.
SPEC_OneInput ==
    [methods |->
        [process |->
            [input |-> <<
                [name |-> "image",
                 type |-> <<"ndarray", "/", "uint8", "/", "/", "/", "3">>] >>,
             output |-> <<
                [name |-> "mask",
                 type |-> <<"ndarray", "/", "uint8", "/", "/">>],
                [name |-> "#bright_pixels",
                 type |-> <<"numeric", "/", "int">>] >>]]]

\* SPEC with the channel count left out of the image descriptor.
SPEC_NoChannels ==
    [methods |->
        [process |->
            [input |-> <<
                [name |-> "image",
                 type |-> <<"ndarray", "/", "uint8", "/", "/">>],
                [name |-> "threshold",
                 type |-> <<"numeric", "/", "int">>] >>,
             output |-> <<
                [name |-> "mask",
                 type |-> <<"ndarray", "/", "uint8", "/", "/">>],
                [name |-> "#bright_pixels",
                 type |-> <<"numeric", "/", "int">>] >>]]]

\* SPEC with the threshold declared as 'numeric/float'.
SPEC_FloatThreshold ==
    [methods |->
        [process |->
            [input |-> <<
                [name |-> "image",
                 type |-> <<"ndarray", "/", "uint8", "/", "/", "/", "3">>],
                [name |-> "threshold",
                 type |-> <<"numeric", "/", "float">>] >>,
             output |-> <<
                [name |-> "mask",
                 type |-> <<"ndarray", "/", "uint8", "/", "/">>],
                [name |-> "#bright_pixels",
                 type |-> <<"numeric", "/", "int">>] >>]]]

\* SPEC with the mask declared as 'ndarray/uint8///1', shape (h,w,1).
SPEC_MaskChannel ==
    [methods |->
        [process |->
            [input |-> <<
                [name |-> "image",
                 type |-> <<"ndarray", "/", "uint8", "/", "/", "/", "3">>],
                [name |-> "threshold",
                 type |-> <<"numeric", "/", "int">>] >>,
             output |-> <<
                [name |-> "mask",
                 type |-> <<"ndarray", "/", "uint8", "/", "/", "/", "1">>],
                [name |-> "#bright_pixels",
                 type |-> <<"numeric", "/", "int">>] >>]]]

SPEC ==
    [methods |->
        [process |->
            [input |-> <<
                [name |-> "image",
                 type |-> <<"ndarray", "/", "uint8", "/", "/", "/", "3">>],
                [name |-> "threshold",
                 type |-> <<"numeric", "/", "int">>] >>,
             output |-> <<
                [name |-> "mask",
                 type |-> <<"ndarray", "/", "uint8", "/", "/">>],
                [name |-> "#bright_pixels",
                 type |-> <<"numeric", "/", "int">>] >>]]]

Directions == {"input", "output"}

(***************************************************************************)
(* Type descriptors (section 4.1, matching algorithm, step 1).             *)
(***************************************************************************)
\* str.split("/"): the tokens between the separators, empty ones included.
RECURSIVE SplitFrom(_, _, _)
SplitFrom(lex, acc, cur) ==
    IF lex = <<>> THEN Append(acc, cur)
    ELSE IF Head(lex) = "/" THEN SplitFrom(Tail(lex), Append(acc, cur), "")
    ELSE SplitFrom(Tail(lex), acc, Head(lex))

Split(lex) == SplitFrom(lex, <<>>, "")

\* int(token) for the dimension tokens that occur in descriptors.
DimValue(tok) ==
    CASE tok = "1" -> 1
      [] tok = "2" -> 2
      [] tok = "3" -> 3
      [] tok = "4" -> 4
      [] OTHER -> 0

\* 0 stands for an unconstrained dimension (an empty token).
ParseDescriptor(lex) ==
    LET toks == Split(lex) IN
    [kind  |-> toks[1],
     etype |-> IF Len(toks) >= 2 THEN toks[2] ELSE "",
     dims  |-> [k \in 1..(IF Len(toks) > 2 THEN Len(toks) - 2 ELSE 0) |->
                   DimValue(toks[k + 2])]]

\* Steps 2 and 3 of the matching algorithm.
ETypeMatches(desc, v) == desc.etype = "" \/ v.etype = desc.etype

DimsMatch(desc, shape) ==
    \A k \in 1..Len(desc.dims) :
        desc.dims[k] # 0 =>
            LET axis == Len(shape) - Len(desc.dims) + k IN
            axis >= 1 /\ shape[axis] = desc.dims[k]

Matches(desc, v) ==
    CASE desc.kind = "numeric" -> v.kind = "scalar" /\ ETypeMatches(desc, v)
      [] desc.kind = "ndarray" ->
            v.kind = "ndarray" /\ ETypeMatches(desc, v)
                               /\ DimsMatch(desc, v.shape)
      [] OTHER -> FALSE

(***************************************************************************)
(* validate(spec, method_name, direction, *values): Module.checktype.      *)
(* The outcome is "ok" or the error raised at the first point of detection.*)
(***************************************************************************)
Ok == [kind |-> "ok", param |-> "", index |-> 0]
Raise(kind, param, index) == [kind |-> kind, param |-> param, index |-> index]

FirstMismatch(params, values) ==
    LET bad == {i \in 1..Len(params) :
                    ~Matches(ParseDescriptor(params[i].type), values[i])}
    IN IF bad = {} THEN 0 ELSE CHOOSE i \in bad : \A j \in bad : i <= j

validate(spec, method, direction, values) ==
    IF method \notin DOMAIN spec.methods THEN Raise("UnknownMethod", "", 0)
    ELSE LET params == spec.methods[method][direction] IN
         IF Len(values) # Len(params) THEN Raise("ArityMismatch", "", 0)
         ELSE LET i == FirstMismatch(params, values) IN
              IF i = 0 THEN Ok
              ELSE Raise("TypeMismatch", params[i].name, i)

(***************************************************************************)
(* segment(image, threshold): bright pixel segmentation.                   *)
(***************************************************************************)
\* image.mean(2): the mean over the third axis, kept as the exact fraction
\* num/den; the result has the shape of the image without that axis.
MeanAxis2(image) ==
    LET shape == image.shape
        A == shape[3]
        inner == Product(SubSeq(shape, 4, Len(shape)))
        outShape == SubSeq(shape, 1, 2) \o SubSeq(shape, 4, Len(shape))
    IN [shape |-> outShape,
        data  |-> [o \in 1..Product(outShape) |->
                     LET p == (o - 1) \div inner
                         r == (o - 1) % inner
                     IN [num |-> SumSeq([k \in 1..A |->
                                   image.data[(p * A + (k - 1)) * inner + r + 1]]),
                         den |-> A]]]

\* mean_img >= threshold in place of mean_img > threshold.
GreaterEq(mean_img, threshold) ==
    [shape |-> mean_img.shape,
     data  |-> [o \in 1..Len(mean_img.data) |->
                  mean_img.data[o].num * threshold.den
                      >= threshold.num * mean_img.data[o].den]]

\* mean_img > threshold, element by element.
Greater(mean_img, threshold) ==
    [shape |-> mean_img.shape,
     data  |-> [o \in 1..Len(mean_img.data) |->
                  mean_img.data[o].num * threshold.den
                      > threshold.num * mean_img.data[o].den]]

\* mask[is_bright] = 255 on a freshly zeroed mask.
SetBright(mask, is_bright) ==
    [mask EXCEPT !.data = [o \in 1..Len(mask.data) |->
                              IF is_bright.data[o] THEN 255 ELSE mask.data[o]]]

\* int(np.sum(is_bright))
CountTrue(is_bright) ==
    SumSeq([o \in 1..Len(is_bright.data) |->
               IF is_bright.data[o] THEN 1 ELSE 0])

SegError(kind) == [ok |-> FALSE, error |-> kind, mask |-> None, n_bright |-> None]

\* segment with the mask allocated by np.zeros(image.shape[:2]), which
\* leaves the dtype at numpy's default float64.
segmentFloatMask(image, threshold) ==
    IF image.kind # "ndarray" THEN SegError("AttributeError")
    ELSE IF Len(image.shape) < 3 THEN SegError("AxisError")
    ELSE LET mean_img == MeanAxis2(image)
             is_bright == Greater(mean_img, threshold)
             mask == Zeros(Prefix(image.shape, 2), "float64")
         IN IF Len(is_bright.shape) > Len(mask.shape) THEN SegError("IndexError")
            ELSE [ok |-> TRUE, error |-> "",
                  mask |-> SetBright(mask, is_bright),
                  n_bright |-> IntVal(CountTrue(is_bright))]

segment(image, threshold) ==
    IF image.kind # "ndarray" THEN SegError("AttributeError")
    ELSE IF Len(image.shape) < 3 THEN SegError("AxisError")
    ELSE LET mean_img == MeanAxis2(image)
             is_bright == Greater(mean_img, threshold)
             mask == Zeros(Prefix(image.shape, 2), "uint8")
         IN IF Len(is_bright.shape) > Len(mask.shape) THEN SegError("IndexError")
            ELSE [ok |-> TRUE, error |-> "",
                  mask |-> SetBright(mask, is_bright),
                  n_bright |-> IntVal(CountTrue(is_bright))]

(***************************************************************************)
(* State.                                                                  *)
(***************************************************************************)
VARIABLES
    spec,        \* the specification held by the shared Detector (self.spec)
    pc,          \* pc[t]: position of thread t inside Detector.process
    image,       \* image[t], threshold[t]: arguments of the invocation
    threshold,
    mask,        \* mask[t], n_bright[t]: locals of the invocation
    n_bright,
    ret,         \* ret[t]: the returned tuple, None before the return
    err,         \* err[t]: the exception that left process, None if none
    trace,       \* trace[t]: the calls made by the invocation, in order
    vcall,       \* the latest direct call of validate and its outcome
    scall        \* the latest direct call of segment and its result

vars == <<spec, pc, image, threshold, mask, n_bright, ret, err, trace,
          vcall, scall>>

procVars == <<pc, image, threshold, mask, n_bright, ret, err, trace>>

NoError == [kind |-> "none", param |-> "", index |-> 0, at |-> ""]
Exception(kind, param, index, at) ==
    [kind |-> kind, param |-> param, index |-> index, at |-> at]

ValidationErrors == {"UnknownMethod", "ArityMismatch", "TypeMismatch"}

(***************************************************************************)
(* Inputs of the process invocations.                                      *)
(***************************************************************************)
ImgRGB == Array("uint8", <<1, 2, 3>>, <<255, 255, 255, 0, 1, 0>>)
ImgRGBA == Array("uint8", <<1, 1, 4>>, <<255, 255, 255, 255>>)
ImgStack == Array("uint8", <<1, 1, 2, 3>>, <<255, 255, 255, 0, 1, 0>>)

ProcImages == {ImgRGB, ImgRGBA, ImgStack}
ProcThresholds == {IntVal(0), IntVal(255), FloatVal(261, 2)}

\* Methods, directions and values of the direct validate calls.
Methods == {"process", "train"}
FewValues == {<<ImgRGB>>, <<ImgRGB, IntVal(0)>>,
              <<ImgRGB, FloatVal(261, 2)>>,
              <<Zeros(<<1, 2>>, "uint8"), IntVal(1)>>}

(***************************************************************************)
(* Detector.process, one step per call it makes.                           *)
(***************************************************************************)
Init ==
    /\ spec = SPEC
    /\ pc = [t \in Threads |-> "idle"]
    /\ image = [t \in Threads |-> None]
    /\ threshold = [t \in Threads |-> None]
    /\ mask = [t \in Threads |-> None]
    /\ n_bright = [t \in Threads |-> None]
    /\ ret = [t \in Threads |-> None]
    /\ err = [t \in Threads |-> NoError]
    /\ trace = [t \in Threads |-> <<>>]
    /\ vcall = None
    /\ scall = None

\* detector.process(image, threshold) is entered.
Call(t, img, thr) ==
    /\ pc[t] = "idle"
    /\ pc' = [pc EXCEPT ![t] = "called"]
    /\ image' = [image EXCEPT ![t] = img]
    /\ threshold' = [threshold EXCEPT ![t] = thr]
    /\ mask' = [mask EXCEPT ![t] = None]
    /\ n_bright' = [n_bright EXCEPT ![t] = None]
    /\ ret' = [ret EXCEPT ![t] = None]
    /\ err' = [err EXCEPT ![t] = NoError]
    /\ trace' = [trace EXCEPT ![t] = <<>>]
    /\ UNCHANGED <<spec, vcall, scall>>

\* The input check with its error swallowed: process goes on to segment
\* whatever the outcome.
CheckInputLenient(t) ==
    /\ pc[t] = "called"
    /\ trace' = [trace EXCEPT ![t] = Append(@, "checktype_input")]
    /\ pc' = [pc EXCEPT ![t] = "input_checked"]
    /\ UNCHANGED <<spec, image, threshold, mask, n_bright, ret, err, vcall, scall>>

\* Module.checktype(self, 'process', 'input', image, threshold)
CheckInput(t) ==
    /\ pc[t] = "called"
    /\ LET out == validate(spec, "process", "input", <<image[t], threshold[t]>>)
       IN /\ trace' = [trace EXCEPT ![t] = Append(@, "checktype_input")]
          /\ IF out.kind = "ok"
             THEN /\ pc' = [pc EXCEPT ![t] = "input_checked"]
                  /\ UNCHANGED err
             ELSE /\ pc' = [pc EXCEPT ![t] = "raised"]
                  /\ err' = [err EXCEPT ![t] =
                               Exception(out.kind, out.param, out.index, "input")]
    /\ UNCHANGED <<spec, image, threshold, mask, n_bright, ret, vcall, scall>>

\* segment called without waiting for the input check.
CallSegmentEarly(t) ==
    /\ pc[t] \in {"called", "input_checked"}
    /\ LET r == segment(image[t], threshold[t])
       IN /\ trace' = [trace EXCEPT ![t] = Append(@, "segment")]
          /\ IF r.ok
             THEN /\ pc' = [pc EXCEPT ![t] = "segmented"]
                  /\ mask' = [mask EXCEPT ![t] = r.mask]
                  /\ n_bright' = [n_bright EXCEPT ![t] = r.n_bright]
                  /\ UNCHANGED err
             ELSE /\ pc' = [pc EXCEPT ![t] = "raised"]
                  /\ err' = [err EXCEPT ![t] = Exception(r.error, "", 0, "segment")]
                  /\ UNCHANGED <<mask, n_bright>>
    /\ UNCHANGED <<spec, image, threshold, ret, vcall, scall>>

\* mask and n_bright kept on the shared Detector (self.mask, self.n_bright)
\* instead of in locals: the assignment is seen by every invocation.
CallSegmentShared(t) ==
    /\ pc[t] = "input_checked"
    /\ LET r == segment(image[t], threshold[t])
       IN /\ trace' = [trace EXCEPT ![t] = Append(@, "segment")]
          /\ IF r.ok
             THEN /\ pc' = [pc EXCEPT ![t] = "segmented"]
                  /\ mask' = [u \in Threads |-> r.mask]
                  /\ n_bright' = [u \in Threads |-> r.n_bright]
                  /\ UNCHANGED err
             ELSE /\ pc' = [pc EXCEPT ![t] = "raised"]
                  /\ err' = [err EXCEPT ![t] = Exception(r.error, "", 0, "segment")]
                  /\ UNCHANGED <<mask, n_bright>>
    /\ UNCHANGED <<spec, image, threshold, ret, vcall, scall>>

\* mask, n_bright = segment(image, threshold)
CallSegment(t) ==
    /\ pc[t] = "input_checked"
    /\ LET r == segment(image[t], threshold[t])
       IN /\ trace' = [trace EXCEPT ![t] = Append(@, "segment")]
          /\ IF r.ok
             THEN /\ pc' = [pc EXCEPT ![t] = "segmented"]
                  /\ mask' = [mask EXCEPT ![t] = r.mask]
                  /\ n_bright' = [n_bright EXCEPT ![t] = r.n_bright]
                  /\ UNCHANGED err
             ELSE /\ pc' = [pc EXCEPT ![t] = "raised"]
                  /\ err' = [err EXCEPT ![t] = Exception(r.error, "", 0, "segment")]
                  /\ UNCHANGED <<mask, n_bright>>
    /\ UNCHANGED <<spec, image, threshold, ret, vcall, scall>>

\* The output check taking the declared parameters off the shared list
\* (params.pop(0)) as it checks them.
CheckOutputConsuming(t) ==
    /\ pc[t] = "segmented"
    /\ LET out == validate(spec, "process", "output", <<mask[t], n_bright[t]>>)
       IN /\ trace' = [trace EXCEPT ![t] = Append(@, "checktype_output")]
          /\ IF out.kind = "ok"
             THEN /\ pc' = [pc EXCEPT ![t] = "output_checked"]
                  /\ UNCHANGED err
             ELSE /\ pc' = [pc EXCEPT ![t] = "raised"]
                  /\ err' = [err EXCEPT ![t] =
                               Exception(out.kind, out.param, out.index, "output")]
    /\ spec' = [spec EXCEPT !.methods.process.output = <<>>]
    /\ UNCHANGED <<image, threshold, mask, n_bright, ret, vcall, scall>>

\* Module.checktype(self, 'process', 'output', mask, n_bright)
CheckOutput(t) ==
    /\ pc[t] = "segmented"
    /\ LET out == validate(spec, "process", "output", <<mask[t], n_bright[t]>>)
       IN /\ trace' = [trace EXCEPT ![t] = Append(@, "checktype_output")]
          /\ IF out.kind = "ok"
             THEN /\ pc' = [pc EXCEPT ![t] = "output_checked"]
                  /\ UNCHANGED err
             ELSE /\ pc' = [pc EXCEPT ![t] = "raised"]
                  /\ err' = [err EXCEPT ![t] =
                               Exception(out.kind, out.param, out.index, "output")]
    /\ UNCHANGED <<spec, image, threshold, mask, n_bright, ret, vcall, scall>>

\* return mask, n_bright
Return(t) ==
    /\ pc[t] = "output_checked"
    /\ pc' = [pc EXCEPT ![t] = "returned"]
    /\ ret' = [ret EXCEPT ![t] = <<mask[t], n_bright[t]>>]
    /\ trace' = [trace EXCEPT ![t] = Append(@, "return")]
    /\ UNCHANGED <<spec, image, threshold, mask, n_bright, err, vcall, scall>>

\* The caller has received the result or the exception; the thread is free
\* for its next invocation.
Finish(t) ==
    /\ pc[t] \in {"returned", "raised"}
    /\ pc' = [pc EXCEPT ![t] = "idle"]
    /\ image' = [image EXCEPT ![t] = None]
    /\ threshold' = [threshold EXCEPT ![t] = None]
    /\ mask' = [mask EXCEPT ![t] = None]
    /\ n_bright' = [n_bright EXCEPT ![t] = None]
    /\ ret' = [ret EXCEPT ![t] = None]
    /\ err' = [err EXCEPT ![t] = NoError]
    /\ trace' = [trace EXCEPT ![t] = <<>>]
    /\ UNCHANGED <<spec, vcall, scall>>

\* A direct call of the validator on the shared specification.
ValidateCall(m, d, vals) ==
    /\ vcall' = [method |-> m, direction |-> d, values |-> vals,
                 outcome |-> validate(spec, m, d, vals)]
    /\ UNCHANGED <<spec, procVars, scall>>

Next ==
    \/ \E t \in Threads, img \in ProcImages, thr \in ProcThresholds :
          Call(t, img, thr)
    \/ \E t \in Threads : CheckInput(t)
    \/ \E t \in Threads : CallSegment(t)
    \/ \E t \in Threads : CheckOutput(t)
    \/ \E t \in Threads : Return(t)
    \/ \E t \in Threads : Finish(t)
    \/ \E m \in Methods, d \in Directions, vals \in FewValues :
          ValidateCall(m, d, vals)

Spec == Init /\ [][Next]_vars

(***************************************************************************)
(* Direct calls of validate over a larger set of values.                   *)
(***************************************************************************)
DimSizes == {3, 4}
ETypes == {"uint8", "float64"}

Shapes == UNION {[1..n -> DimSizes] : n \in 0..MaxRank}

Arrays == {Zeros(sh, et) : sh \in Shapes, et \in ETypes}
Scalars == {IntVal(130), FloatVal(261, 2)}
FirstValues == Arrays \cup Scalars \cup {StrVal}
SecondValues == Scalars \cup {StrVal, Zeros(<<3>>, "uint8")}

ManyValues ==
    {<<>>}
    \cup {<<a>> : a \in FirstValues}
    \cup {<<a, b>> : a \in FirstValues, b \in SecondValues}
    \cup {<<a, b, IntVal(130)>> : a \in FirstValues, b \in SecondValues}

\* One call per behaviour: the outcome of a call is a function of its
\* arguments and of the specification, which the call leaves unchanged.
NextValidate ==
    /\ vcall = None
    /\ \E m \in Methods, d \in Directions, vals \in ManyValues :
          ValidateCall(m, d, vals)

SpecValidate == Init /\ [][NextValidate]_vars

(***************************************************************************)
(* Direct calls of segment on RGB images of shape (h, w, 3).               *)
(***************************************************************************)
Pixels == {<<0, 0, 0>>, <<0, 1, 0>>, <<1, 1, 1>>, <<255, 0, 0>>,
           <<0, 0, 255>>, <<255, 255, 255>>}
SegThresholds == {-1, 0, 1, 84, 85, 254, 255, 256}

\* The image of shape (h, w, 3) whose pixel number q (row-major) is px[q].
ImageOf(h, w, px) ==
    Array("uint8", <<h, w, 3>>,
          [o \in 1..(h * w * 3) |-> px[((o - 1) \div 3) + 1][((o - 1) % 3) + 1]])

SegImages ==
    {ImageOf(hw[1], hw[2], px) :
        hw \in (0..MaxH) \X (0..MaxW), px \in [1..(MaxH * MaxW) -> Pixels]}

SegmentCall(img, thr) ==
    /\ scall' = [image |-> img, threshold |-> thr, result |-> segment(img, thr)]
    /\ UNCHANGED <<spec, procVars, vcall>>

NextSegment ==
    /\ scall = None
    /\ \E img \in SegImages, n \in SegThresholds : SegmentCall(img, IntVal(n))

SpecSegment == Init /\ [][NextSegment]_vars

(***************************************************************************)
(* Properties of Detector.process (specification Spec).                    *)
(***************************************************************************)
Events(t) == {trace[t][i] : i \in 1..Len(trace[t])}

InputOutcome(t) ==
    validate(SPEC, "process", "input", <<image[t], threshold[t]>>)

OutputOutcome(t) ==
    validate(SPEC, "process", "output", <<mask[t], n_bright[t]>>)

\* C1: an invocation of process that returns normally has made exactly the
\* calls checktype(input), segment, checktype(output), return, in this
\* order; segment is called at most once per invocation, and only directly
\* after an input validation that succeeded.
C1_ProcessOrder ==
    \A t \in Threads :
        /\ pc[t] = "returned" =>
              trace[t] = <<"checktype_input", "segment",
                           "checktype_output", "return">>
        /\ Cardinality({i \in 1..Len(trace[t]) : trace[t][i] = "segment"}) <= 1
        /\ \A i \in 1..Len(trace[t]) :
              trace[t][i] = "segment" =>
                  /\ i = 2
                  /\ trace[t][1] = "checktype_input"
                  /\ InputOutcome(t).kind = "ok"

C1_Witness ==
    \E t \in Threads : pc[t] = "returned" /\ Len(trace[t]) = 4

\* C5: a failed validation ends the invocation at once.  When the inputs do
\* not pass, process raises the validator's error, segment is never called
\* and nothing is returned; when the outputs do not pass, process raises
\* and nothing is returned.  The failing check is made once (no retry) and
\* the arguments are left as they were passed (no coercion).
C5_FailFast ==
    \A t \in Threads :
        /\ (trace[t] # <<>> /\ InputOutcome(t).kind # "ok") =>
              /\ pc[t] = "raised"
              /\ err[t].kind = InputOutcome(t).kind
              /\ err[t].at = "input"
              /\ trace[t] = <<"checktype_input">>
              /\ ret[t] = None
              /\ mask[t] = None /\ n_bright[t] = None
        /\ ("checktype_output" \in Events(t) /\ OutputOutcome(t).kind # "ok") =>
              /\ pc[t] = "raised"
              /\ err[t].kind = OutputOutcome(t).kind
              /\ err[t].at = "output"
              /\ trace[t] = <<"checktype_input", "segment", "checktype_output">>
              /\ ret[t] = None
        /\ err[t].kind \in ValidationErrors =>
              pc[t] = "raised" /\ ret[t] = None

C5_Witness ==
    \E t \in Threads :
        /\ pc[t] = "raised"
        /\ err[t].kind = "TypeMismatch" /\ err[t].at = "input"
        /\ trace[t] = <<"checktype_input">>

\* C8: validate is a function of the specification and of its arguments:
\* every direct call has the outcome the same call has on the specification
\* as loaded, whatever validate and process calls came before; a direct
\* call and the input check of an invocation that were given the same
\* values agree; and no call changes the specification.
C8_SameOutcome ==
    /\ spec = SPEC
    /\ vcall # None =>
          /\ vcall.outcome =
                validate(SPEC, vcall.method, vcall.direction, vcall.values)
          /\ \A t \in Threads :
                (/\ trace[t] # <<>>
                 /\ vcall.method = "process" /\ vcall.direction = "input"
                 /\ vcall.values = <<image[t], threshold[t]>>) =>
                    (vcall.outcome.kind = "ok" <=> err[t].at # "input")

C8_Witness ==
    /\ vcall # None
    /\ \E t \in Threads :
          /\ pc[t] = "returned"
          /\ vcall.method = "process" /\ vcall.direction = "input"
          /\ vcall.values = <<image[t], threshold[t]>>
          /\ vcall.outcome.kind = "ok"
    /\ \E t \in Threads : pc[t] = "raised"

\* The outcome of process(img, thr) run on its own, from entry to exit.
Alone(img, thr) ==
    LET vin == validate(SPEC, "process", "input", <<img, thr>>) IN
    IF vin.kind # "ok"
    THEN [ret |-> None, err |-> Exception(vin.kind, vin.param, vin.index, "input")]
    ELSE LET r == segment(img, thr) IN
         IF ~r.ok
         THEN [ret |-> None, err |-> Exception(r.error, "", 0, "segment")]
         ELSE LET vout == validate(SPEC, "process", "output",
                                   <<r.mask, r.n_bright>>) IN
              IF vout.kind # "ok"
              THEN [ret |-> None,
                    err |-> Exception(vout.kind, vout.param, vout.index, "output")]
              ELSE [ret |-> <<r.mask, r.n_bright>>, err |-> NoError]

\* C9: under every interleaving of the steps of concurrent invocations on
\* the shared Detector, each invocation ends with the result or the error
\* it has when run alone.
C9_Isolation ==
    \A t \in Threads :
        pc[t] \in {"returned", "raised"} =>
            /\ ret[t] = Alone(image[t], threshold[t]).ret
            /\ err[t] = Alone(image[t], threshold[t]).err

C9_Witness ==
    \E t, u \in Threads :
        /\ t # u
        /\ pc[t] = "returned" /\ pc[u] = "returned"
        /\ threshold[t] # threshold[u]
        /\ ret[t] # ret[u]

\* C10 as stated: whenever the inputs pass the input validation, the
\* invocation raises nothing, the outputs of segment pass the output
\* validation and the mask has the shape of the image without its last
\* dimension.
C10_Original ==
    \A t \in Threads :
        (trace[t] # <<>> /\ InputOutcome(t).kind = "ok") =>
            /\ pc[t] # "raised" /\ err[t] = NoError
            /\ pc[t] \in {"segmented", "output_checked", "returned"} =>
                  /\ OutputOutcome(t).kind = "ok"
                  /\ mask[t].shape =
                        SubSeq(image[t].shape, 1, Len(image[t].shape) - 1)

\* C10 amended: the same for the inputs that pass the input validation and
\* whose image has exactly three dimensions, (h, w, 3).
C10_ThreeDims ==
    \A t \in Threads :
        (/\ trace[t] # <<>> /\ InputOutcome(t).kind = "ok"
         /\ Len(image[t].shape) = 3) =>
            /\ pc[t] # "raised" /\ err[t] = NoError
            /\ pc[t] \in {"segmented", "output_checked", "returned"} =>
                  /\ OutputOutcome(t).kind = "ok"
                  /\ mask[t].shape =
                        SubSeq(image[t].shape, 1, Len(image[t].shape) - 1)
            /\ pc[t] = "returned" => ret[t] = <<mask[t], n_bright[t]>>

C10_Witness ==
    \E t \in Threads :
        /\ pc[t] = "returned"
        /\ image[t].shape = <<1, 2, 3>>
        /\ ret[t][1].shape = <<1, 2>>

(***************************************************************************)
(* Properties of validate (specification SpecValidate).  The declared      *)
(* contract of method process is restated here value by value.             *)
(***************************************************************************)
DeclaredNames(d) ==
    IF d = "input" THEN <<"image", "threshold">>
                   ELSE <<"mask", "#bright_pixels">>

LastDim(v) == v.shape[Len(v.shape)]

\* Value v matches the descriptor declared for parameter i of direction d:
\* 'ndarray/uint8///3', 'numeric/int', 'ndarray/uint8//', 'numeric/int'.
Conforms(d, i, v) ==
    IF i = 2 THEN v.kind = "scalar" /\ v.etype = "int"
    ELSE IF d = "input"
         THEN /\ v.kind = "ndarray" /\ v.etype = "uint8"
              /\ Len(v.shape) >= 1 /\ LastDim(v) = 3
         ELSE v.kind = "ndarray" /\ v.etype = "uint8"

\* Value v has another element type than the descriptor of parameter i
\* constrains, or another size on the fixed trailing dimension.
Offending(d, i, v) ==
    \/ v.etype # (IF i = 2 THEN "int" ELSE "uint8")
    \/ /\ d = "input" /\ i = 1
       /\ v.kind = "ndarray" /\ Len(v.shape) >= 1 /\ LastDim(v) # 3

Validated == vcall # None /\ vcall.method = "process"

\* C2: a call of validate for a declared method and direction with fewer or
\* more values than declared parameters raises ArityMismatch; method
\* process declares two parameters in each direction, so a call with one
\* value raises ArityMismatch.
C2_Arity ==
    Validated =>
        /\ Len(vcall.values) # Len(SPEC.methods.process[vcall.direction]) =>
              vcall.outcome.kind = "ArityMismatch"
        /\ Len(vcall.values) # 2 => vcall.outcome.kind = "ArityMismatch"

C2_Witness ==
    /\ Validated /\ vcall.direction = "input"
    /\ Len(vcall.values) = 1
    /\ vcall.outcome.kind = "ArityMismatch"

\* C3: in a call with the declared number of values, a value with a wrong
\* element type or a wrong size on the fixed trailing dimension makes
\* validate raise TypeMismatch, and the error names a parameter whose value
\* does not match its descriptor (the first one).
C3_Rejection ==
    (Validated /\ Len(vcall.values) = 2) =>
        \A i \in 1..2 :
            Offending(vcall.direction, i, vcall.values[i]) =>
                /\ vcall.outcome.kind = "TypeMismatch"
                /\ vcall.outcome.index \in 1..i
                /\ ~Conforms(vcall.direction, vcall.outcome.index,
                             vcall.values[vcall.outcome.index])
                /\ \A j \in 1..(vcall.outcome.index - 1) :
                      Conforms(vcall.direction, j, vcall.values[j])
                /\ vcall.outcome.param =
                      DeclaredNames(vcall.direction)[vcall.outcome.index]

C3_Witness ==
    /\ Validated /\ vcall.direction = "input" /\ Len(vcall.values) = 2
    /\ vcall.values[1].kind = "ndarray" /\ vcall.values[1].etype = "uint8"
    /\ Len(vcall.values[1].shape) = 3 /\ LastDim(vcall.values[1]) = 4
    /\ vcall.values[2] = IntVal(130)
    /\ vcall.outcome.kind = "TypeMismatch" /\ vcall.outcome.param = "image"

\* C4: a call with the declared number of values, each matching its
\* descriptor in kind, element type and fixed trailing dimension, returns
\* normally.
C4_Conformance ==
    (/\ Validated /\ Len(vcall.values) = 2
     /\ \A i \in 1..2 : Conforms(vcall.direction, i, vcall.values[i])) =>
        vcall.outcome.kind = "ok"

C4_Witness ==
    /\ Validated /\ vcall.direction = "input" /\ Len(vcall.values) = 2
    /\ vcall.values[1].kind = "ndarray" /\ vcall.values[1].etype = "uint8"
    /\ Len(vcall.values[1].shape) = 3 /\ LastDim(vcall.values[1]) = 3
    /\ vcall.values[2] = IntVal(130)
    /\ vcall.outcome.kind = "ok"

\* C7: the mask descriptor 'ndarray/uint8//' fixes no dimension: every
\* uint8 array passes as the mask, whatever the number and the sizes of
\* its dimensions.
C7_Unconstrained ==
    (/\ Validated /\ vcall.direction = "output" /\ Len(vcall.values) = 2
     /\ vcall.values[1].kind = "ndarray" /\ vcall.values[1].etype = "uint8") =>
        /\ vcall.outcome.param # "mask"
        /\ vcall.values[2].etype = "int" => vcall.outcome.kind = "ok"

C7_Witness ==
    /\ Validated /\ vcall.direction = "output" /\ Len(vcall.values) = 2
    /\ vcall.values[1].kind = "ndarray" /\ vcall.values[1].etype = "uint8"
    /\ Len(vcall.values[1].shape) >= 3
    /\ LastDim(vcall.values[1]) = 4
    /\ vcall.outcome.kind = "ok"

(***************************************************************************)
(* Properties of segment (specification SpecSegment).                      *)
(***************************************************************************)
\* The channel values of pixel (i, j), 0-based, of an image of shape (h, w, 3).
Channel(img, i, j, c) == img.data[(i * img.shape[2] + j) * 3 + c + 1]

MaskAt(m, i, j) == m.data[i * m.shape[2] + j + 1]

BrightPixels(img, n) ==
    {ij \in (0..(img.shape[1] - 1)) \X (0..(img.shape[2] - 1)) :
        Channel(img, ij[1], ij[2], 0) + Channel(img, ij[1], ij[2], 1)
            + Channel(img, ij[1], ij[2], 2) > 3 * n}

====
